---------------------------- MODULE Spec2Model ----------------------------
(***************************************************************************)
(* A model of poof (src/src/index.ts), the zmx session manager: one run of *)
(* the process from main() to its exit, with the external authority (zmx)  *)
(* and the prompt as its environment.                                      *)
(*                                                                         *)
(* Strings are sequences of UTF-16 code units (97 is 'a', 32 is ' '), so   *)
(* that trim, toLowerCase, length, split and the regular expressions are   *)
(* computed as JavaScript computes them.                                   *)
(***************************************************************************)
EXTENDS Integers, Sequences, FiniteSets, TLC

VARIABLES
    options,      \* CliOptions returned by parseArgs
    installed,    \* whether `which zmx` succeeds
    authority,    \* names of the sessions zmx holds, in creation order
    listResult,   \* the outcome of execSync('zmx list'), once it was run
    pc,           \* position of the process
    sessions,     \* const sessions = getZmxSessions()
    index,        \* forEach position while the letter map is built
    letterMap,    \* const letterMap = new Map<string, string>()
    asks,         \* how many values the prompt handed to validate
    lastInput,    \* the value validate saw last
    verdict,      \* what validate answered for it
    input,        \* what `await text(...)` resolved to
    resolved,     \* the session action the dispatch chose
    spawned,      \* spawn('zmx', [...]) calls, in order
    kills,        \* execSync('zmx kill ...') calls, in order, with outcome
    child,        \* state of the spawned child
    exitStatus    \* <<>> while running, <<n>> once the process ended with n

vars == <<options, installed, authority, listResult, pc, sessions, index, letterMap, asks,
          lastInput, verdict, input, resolved, spawned, kills, child, exitStatus>>

---------------------------------------------------------------------------
(* Bounds of the model. *)

\* longest input drawn over Alphabet (the keyword inputs are added to these)
MaxInputLen == 2
\* most sessions of a listing with freely chosen names
MaxSessions == 2
\* size of the one large listing the authority may hold (two-letter labels)
MaxLarge == 27
\* size of the listing the letter loop is run on alone (ranks past 'zz' included)
MaxListing == 704
\* most values one prompt hands to validate
MaxAsks == 2
\* most lines of a `zmx list` output made of arbitrary lines
MaxLines == 3
\* most sessions other clients add to the authority after a listing
MaxOthers == 1

---------------------------------------------------------------------------
(* JavaScript strings. *)

\* the code units inputs are drawn from: tab, ' ', 'A', 'a', 'b', 'z', U+0130
Alphabet == {9, 32, 65, 97, 98, 122, 304}

\* white space as String.prototype.trim and \S see it (tab, LF, CR, space)
IsSpace(c) == c \in {9, 10, 13, 32}

TrimStart(s) ==
    IF \A i \in 1..Len(s) : IsSpace(s[i]) THEN <<>>
    ELSE LET f == CHOOSE i \in 1..Len(s) :
                      /\ ~IsSpace(s[i])
                      /\ \A j \in 1..(i-1) : IsSpace(s[j])
         IN  SubSeq(s, f, Len(s))

TrimEnd(s) ==
    IF \A i \in 1..Len(s) : IsSpace(s[i]) THEN <<>>
    ELSE LET l == CHOOSE i \in 1..Len(s) :
                      /\ ~IsSpace(s[i])
                      /\ \A j \in (i+1)..Len(s) : IsSpace(s[j])
         IN  SubSeq(s, 1, l)

\* String.prototype.trim
Trim(s) == TrimEnd(TrimStart(s))

\* toLowerCase of one code unit: ASCII capitals, and U+0130 (capital I with
\* dot above), whose lower case is the two code units 'i' U+0307
ToLowerChar(c) ==
    IF c >= 65 /\ c <= 90 THEN <<c + 32>>
    ELSE IF c = 304 THEN <<105, 775>>
    ELSE <<c>>

RECURSIVE ToLowerCase(_)
\* String.prototype.toLowerCase
ToLowerCase(s) ==
    IF s = <<>> THEN <<>> ELSE ToLowerChar(Head(s)) \o ToLowerCase(Tail(s))

\* String.prototype.startsWith
StartsWith(s, p) == Len(s) >= Len(p) /\ SubSeq(s, 1, Len(p)) = p

RECURSIVE Split(_, _)
\* String.prototype.split(sep) for a one-code-unit separator
Split(s, sep) ==
    IF \A i \in 1..Len(s) : s[i] # sep THEN <<s>>
    ELSE LET p == CHOOSE i \in 1..Len(s) :
                      /\ s[i] = sep
                      /\ \A j \in 1..(i-1) : s[j] # sep
         IN  <<SubSeq(s, 1, p - 1)>> \o Split(SubSeq(s, p + 1, Len(s)), sep)

\* /^[a-z]$/i.test(s): without the u flag only the ASCII letters match
IsAsciiLetter(s) ==
    /\ Len(s) = 1
    /\ \/ (s[1] >= 97 /\ s[1] <= 122)
       \/ (s[1] >= 65 /\ s[1] <= 90)

\* 'reset'
ResetWord == <<114, 101, 115, 101, 116>>
\* 'session_name='
SessionNameKey == <<115, 101, 115, 115, 105, 111, 110, 95, 110, 97, 109, 101, 61>>
\* 'no sessions found'
NoSessionsFound == <<110, 111, 32, 115, 101, 115, 115, 105, 111, 110, 115, 32,
                     102, 111, 117, 110, 100>>

\* line.match(/session_name=(\S+)/): <<>> when there is no match, else
\* <<capture>>, the leftmost match with the longest run of non-space
MatchSessionName(line) ==
    LET k == Len(SessionNameKey)
        Hit(i) == /\ i + k <= Len(line)
                  /\ SubSeq(line, i, i + k - 1) = SessionNameKey
                  /\ ~IsSpace(line[i + k])
    IN  IF \A i \in 1..Len(line) : ~Hit(i) THEN <<>>
        ELSE LET i == CHOOSE x \in 1..Len(line) :
                          Hit(x) /\ \A y \in 1..(x-1) : ~Hit(y)
                 b == i + k
                 e == CHOOSE x \in b..Len(line) :
                          /\ \A y \in b..x : ~IsSpace(line[y])
                          /\ (x = Len(line) \/ IsSpace(line[x + 1]))
             IN  <<SubSeq(line, b, e)>>

---------------------------------------------------------------------------
(* The letter designator. *)

\* String.fromCharCode(n): one UTF-16 code unit
FromCharCode(n) == <<n % 65536>>

\* the label with the first letter one too far: 'ba' for rank 26
generateLetterDesignation_NoMinusOne(i) ==
    IF i < 26 THEN FromCharCode(97 + i)
    ELSE FromCharCode(97 + (i \div 26)) \o FromCharCode(97 + (i % 26))

\* the label wrapping around after 'z': 'a' again for rank 26
generateLetterDesignation_Wrap(i) == FromCharCode(97 + (i % 26))

generateLetterDesignation(i) ==
    IF i < 26 THEN FromCharCode(97 + i)
    ELSE LET first  == FromCharCode(97 + (i \div 26) - 1)
             second == FromCharCode(97 + (i % 26))
         IN  first \o second


---------------------------------------------------------------------------
(* The external authority and the session lister. *)

\* the session names small listings are made of: 'a', 'ab', 'zz'
SessionNames == {<<97>>, <<97, 98>>, <<122, 122>>}

\* decimal digits of n, three wide
Digits3(n) == <<48 + ((n \div 100) % 10), 48 + ((n \div 10) % 10), 48 + (n % 10)>>

\* a large listing: 'n000', 'n001', ...
BigListing(n) == [i \in 1..n |-> <<110>> \o Digits3(i - 1)]

RECURSIVE SeqsOver(_, _)
\* the sequences of length n over S
SeqsOver(S, n) ==
    IF n = 0 THEN {<<>>}
    ELSE {Append(q, x) : q \in SeqsOver(S, n - 1), x \in S}

\* the sequences of length at most n over S
SeqsUpTo(S, n) == UNION {SeqsOver(S, k) : k \in 0..n}

NoDuplicates(q) == \A i, j \in 1..Len(q) : i # j => q[i] # q[j]

\* what the authority may hold when the process starts
Authorities ==
    {q \in SeqsUpTo(SessionNames, MaxSessions) : NoDuplicates(q)} \cup {BigListing(MaxLarge)}

RECURSIVE ZmxListText(_)
\* the text `zmx list` prints for the sessions q, one line a session:
\* session_name=VALUE <tab> pid=VALUE <tab> clients=VALUE
ZmxListText(q) ==
    IF q = <<>> THEN <<>>
    ELSE SessionNameKey \o Head(q)
           \o <<9, 112, 105, 100, 61, 49, 9, 99, 108, 105, 101, 110, 116, 115, 61, 48, 10>>
           \o ZmxListText(Tail(q))

\* the outcomes of execSync('zmx list') when the authority holds q: the
\* listing, the "no sessions found in /tmp/zmx" text, exit status 1, or any
\* other failure of the subprocess
ZmxList(q) ==
    (IF q = <<>>
       THEN {[kind |-> "ok",
              output |-> NoSessionsFound \o <<32, 105, 110, 32, 47, 116, 109, 112,
                                              47, 122, 109, 120, 10>>]}
       ELSE {[kind |-> "ok", output |-> ZmxListText(q)]})
    \cup {[kind |-> "status1", output |-> <<>>],
          [kind |-> "failed", output |-> <<>>]}

\* lines.filter(line => line.length > 0)
RECURSIVE FilterNonEmpty(_)
FilterNonEmpty(lines) ==
    IF lines = <<>> THEN <<>>
    ELSE IF Len(Head(lines)) > 0
         THEN <<Head(lines)>> \o FilterNonEmpty(Tail(lines))
         ELSE FilterNonEmpty(Tail(lines))

\* one element of the .map(...): the record of a line
ParseLine(line) ==
    LET match == MatchSessionName(line)
    IN  [name |-> IF match # <<>> THEN match[1] ELSE Trim(line)]

\* getZmxSessions with a catch that returns [] for every error
getZmxSessions_Swallow(r) ==
    IF r.kind = "ok"
    THEN LET trimmed == Trim(r.output)
         IN  IF StartsWith(trimmed, NoSessionsFound)
             THEN [threw |-> FALSE, value |-> <<>>]
             ELSE LET lines == FilterNonEmpty(Split(trimmed, 10))
                  IN  [threw |-> FALSE,
                       value |-> [i \in 1..Len(lines) |-> ParseLine(lines[i])]]
    ELSE [threw |-> FALSE, value |-> <<>>]

\* getZmxSessions on the outcome r of `zmx list`: threw, or the records
getZmxSessions(r) ==
    IF r.kind = "ok"
    THEN LET trimmed == Trim(r.output)
         IN  IF StartsWith(trimmed, NoSessionsFound)
             THEN [threw |-> FALSE, value |-> <<>>]
             ELSE LET lines == FilterNonEmpty(Split(trimmed, 10))
                  IN  [threw |-> FALSE,
                       value |-> [i \in 1..Len(lines) |-> ParseLine(lines[i])]]
    ELSE IF r.kind = "status1"
    THEN [threw |-> FALSE, value |-> <<>>]
    ELSE [threw |-> TRUE, value |-> <<>>]

\* sessions.some(s => s.name === sessionName)
\* a search that looks at the first record only
Exists_FirstOnly(sess, sessionName) == sess # <<>> /\ sess[1].name = sessionName

Exists(sess, sessionName) == \E i \in 1..Len(sess) : sess[i].name = sessionName

RECURSIVE Without(_, _)
\* the sessions q with those named in gone removed
Without(q, gone) ==
    IF q = <<>> THEN <<>>
    ELSE IF Head(q) \in gone THEN Without(Tail(q), gone)
         ELSE <<Head(q)>> \o Without(Tail(q), gone)

\* zmx attach creates the session when it does not exist
AfterAttach(q, name) ==
    IF \E i \in 1..Len(q) : q[i] = name THEN q ELSE Append(q, name)

---------------------------------------------------------------------------
(* The prompt: what the user may type, and what validate answers. *)

\* inputs that need code units outside Alphabet, or more than MaxInputLen:
\* 'reset', 'RESET', 'Reset', ' reSet ', 'resets', ' a ', 'B  '
KeywordInputs ==
    {ResetWord,
     <<82, 69, 83, 69, 84>>,
     <<82, 101, 115, 101, 116>>,
     <<32, 114, 101, 83, 101, 116, 32>>,
     ResetWord \o <<115>>,
     <<32, 97, 32>>,
     <<66, 32, 32>>}

Inputs == SeqsUpTo(Alphabet, MaxInputLen) \cup KeywordInputs

\* randomUUID(): '0000000k-0000-4000-8000-000000000000'
Uuid(k) ==
    [i \in 1..36 |->
        IF i \in {9, 14, 19, 24} THEN 45
        ELSE IF i = 15 THEN 52
        ELSE IF i = 20 THEN 56
        ELSE IF i = 8 THEN 48 + k
        ELSE 48]

Uuids == {Uuid(1), Uuid(2)}

\* validate of the prompt shown when no session exists: TRUE when it
\* returns a message (the value is rejected)
validateNoSessions(value) ==
    Len(value) = 1 /\ IsAsciiLetter(value)

\* validate comparing the lower-cased value without trimming it
validateHasSessions_NoTrim(value, lm) ==
    IF value = <<>> THEN FALSE
    ELSE LET val == ToLowerCase(value)
         IN  Len(val) = 1 /\ val \notin DOMAIN lm

\* validate of the prompt shown with sessions listed
validateHasSessions(value, lm) ==
    IF value = <<>> THEN FALSE
    ELSE LET val == ToLowerCase(Trim(value))
         IN  Len(val) = 1 /\ val \notin DOMAIN lm

\* letterMap.set(letter, name)
MapSet(lm, letter, name) == (letter :> name) @@ lm

EmptyMap == [k \in {} |-> <<>>]

\* no session action chosen yet
Pending == [type |-> "Pending", name |-> <<>>, generated |-> FALSE]

\* input || randomUUID(), without the trim
resolveNoSessions_NoTrim(value, uuid) ==
    IF value # <<>>
    THEN [type |-> "Create", name |-> value, generated |-> FALSE]
    ELSE [type |-> "Create", name |-> uuid, generated |-> TRUE]

\* a first prompt that knows the keyword of the second
resolveNoSessions_Reset(value, uuid) ==
    IF ToLowerCase(Trim(value)) = ResetWord
    THEN [type |-> "KillAll", name |-> <<>>, generated |-> FALSE]
    ELSE IF Trim(value) # <<>>
    THEN [type |-> "Create", name |-> Trim(value), generated |-> FALSE]
    ELSE [type |-> "Create", name |-> uuid, generated |-> TRUE]

\* the action lines 333-335 take for the resolved input of the first prompt
resolveNoSessions(value, uuid) ==
    IF Trim(value) # <<>>
    THEN [type |-> "Create", name |-> Trim(value), generated |-> FALSE]
    ELSE [type |-> "Create", name |-> uuid, generated |-> TRUE]

\* the dispatch looking the letter up as typed: letterMap.get(value)
resolveHasSessions_NoFold(inp, lm, uuid) ==
    LET value == Trim(inp)
    IN  IF ToLowerCase(value) = ResetWord
        THEN [type |-> "KillAll", name |-> <<>>, generated |-> FALSE]
        ELSE IF value = <<>>
        THEN [type |-> "Create", name |-> uuid, generated |-> TRUE]
        ELSE IF Len(value) = 1
        THEN IF value \in DOMAIN lm /\ lm[value] # <<>>
             THEN [type |-> "Attach", name |-> lm[value], generated |-> FALSE]
             ELSE [type |-> "None", name |-> <<>>, generated |-> FALSE]
        ELSE [type |-> "Create", name |-> value, generated |-> FALSE]

\* the dispatch creating the session under the lower-cased name
resolveHasSessions_FoldedName(inp, lm, uuid) ==
    LET value == ToLowerCase(Trim(inp))
    IN  IF value = ResetWord
        THEN [type |-> "KillAll", name |-> <<>>, generated |-> FALSE]
        ELSE IF value = <<>>
        THEN [type |-> "Create", name |-> uuid, generated |-> TRUE]
        ELSE IF Len(value) = 1
        THEN IF value \in DOMAIN lm /\ lm[value] # <<>>
             THEN [type |-> "Attach", name |-> lm[value], generated |-> FALSE]
             ELSE [type |-> "None", name |-> <<>>, generated |-> FALSE]
        ELSE [type |-> "Create", name |-> value, generated |-> FALSE]

\* the branch lines 374-397 take for the resolved input of the second prompt
resolveHasSessions(inp, lm, uuid) ==
    LET value == Trim(inp)
    IN  IF ToLowerCase(value) = ResetWord
        THEN [type |-> "KillAll", name |-> <<>>, generated |-> FALSE]
        ELSE IF value = <<>>
        THEN [type |-> "Create", name |-> uuid, generated |-> TRUE]
        ELSE IF Len(value) = 1
        THEN IF ToLowerCase(value) \in DOMAIN lm /\ lm[ToLowerCase(value)] # <<>>
             THEN [type |-> "Attach", name |-> lm[ToLowerCase(value)],
                   generated |-> FALSE]
             ELSE [type |-> "None", name |-> <<>>, generated |-> FALSE]
        ELSE [type |-> "Create", name |-> value, generated |-> FALSE]


---------------------------------------------------------------------------
(* The run of the process. *)

\* session names given on the command line: 'ab', 'zz', 'n000'
ArgNames == {<<97, 98>>, <<122, 122>>, <<110, 48, 48, 48>>}

\* the CliOptions parseArgs returns
CliOptions ==
    {[command |-> c, sessionName |-> <<>>] :
        c \in {"interactive", "list", "help", "version"}}
    \cup {[command |-> c, sessionName |-> n] :
        c \in {"attach", "create", "kill"}, n \in ArgNames}

\* the exit codes a child reports: <<>> is null (ended by a signal)
ChildCodes == {<<>>, <<0>>, <<1>>, <<130>>}

NoChild == [state |-> "none", code |-> <<>>]

\* `zmx list` was not run
NotListed == [kind |-> "none", output |-> <<>>]

Init ==
    /\ options \in CliOptions
    /\ installed \in BOOLEAN
    /\ authority \in Authorities
    /\ listResult = NotListed
    /\ pc = "main"
    /\ sessions = <<>>
    /\ index = 0
    /\ letterMap = EmptyMap
    /\ asks = 0
    /\ lastInput = <<>>
    /\ verdict = "none"
    /\ input = [cancel |-> FALSE, value |-> <<>>]
    /\ resolved = Pending
    /\ spawned = <<>>
    /\ kills = <<>>
    /\ child = NoChild
    /\ exitStatus = <<>>

\* process.exit(n), or the end of the process with nothing left to run (n = 0)
Exit(n) == pc' = "exited" /\ exitStatus' = <<n>>

\* spawn('zmx', ['attach', name], {stdio: 'inherit'}): the call is made; the
\* child runs, or the spawn fails and the child emits 'error'
Spawn(name) ==
    /\ spawned' = Append(spawned, [command |-> "attach", name |-> name])
    /\ \E ok \in BOOLEAN :
          /\ child' = [state |-> IF ok THEN "running" ELSE "failed", code |-> <<>>]
          /\ authority' = IF ok THEN AfterAttach(authority, name) ELSE authority
    /\ pc' = "handoff"
    /\ UNCHANGED exitStatus

\* main: help
showHelp ==
    /\ pc = "main"
    /\ options.command = "help"
    /\ Exit(0)
    /\ UNCHANGED <<options, installed, listResult, authority, sessions, index, letterMap, asks,
                   lastInput, verdict, input, resolved, spawned, kills, child>>

\* main: version
showVersion ==
    /\ pc = "main"
    /\ options.command = "version"
    /\ Exit(0)
    /\ UNCHANGED <<options, installed, listResult, authority, sessions, index, letterMap, asks,
                   lastInput, verdict, input, resolved, spawned, kills, child>>

\* a main that goes to the command without ensureZmx
Ensured_NoCheck(command) ==
    /\ pc = "main"
    /\ options.command = command

\* whether main gets past ensureZmx to the command of the run
Ensured(command) ==
    /\ pc = "main"
    /\ options.command = command
    /\ installed

\* main: ensureZmx when zmx is not installed
ensureZmx ==
    /\ pc = "main"
    /\ options.command \notin {"help", "version"}
    /\ ~installed
    /\ Exit(1)
    /\ UNCHANGED <<options, installed, listResult, authority, sessions, index, letterMap, asks,
                   lastInput, verdict, input, resolved, spawned, kills, child>>

\* listSessionsDirect when `zmx list` ends as r
listSessionsDirectOn(r) ==
    /\ Ensured("list")
    /\ listResult' = r
    /\ LET got == getZmxSessions(r)
       IN  IF got.threw
           THEN Exit(1) /\ UNCHANGED sessions
           ELSE Exit(0) /\ sessions' = got.value
    /\ UNCHANGED <<options, installed, authority, index, letterMap, asks,
                   lastInput, verdict, input, resolved, spawned, kills, child>>

listSessionsDirect == \E r \in ZmxList(authority) : listSessionsDirectOn(r)

attachSessionDirect ==
    /\ Ensured("attach")
    /\ Spawn(options.sessionName)
    /\ UNCHANGED <<options, installed, listResult, sessions, index, letterMap, asks,
                   lastInput, verdict, input, resolved, kills>>

createSessionDirect ==
    /\ Ensured("create")
    /\ \E r \in ZmxList(authority) :
          LET got == getZmxSessions(r)
          IN  /\ listResult' = r
              /\ IF got.threw
                 THEN /\ Exit(1)
                      /\ UNCHANGED <<sessions, spawned, child, authority>>
                 ELSE /\ sessions' = got.value
                      /\ IF Exists(got.value, options.sessionName)
                         THEN /\ Exit(1)
                              /\ UNCHANGED <<spawned, child, authority>>
                         ELSE /\ pc' = "spawn"
                              /\ UNCHANGED <<spawned, child, authority, exitStatus>>
    /\ UNCHANGED <<options, installed, index, letterMap, asks,
                   lastInput, verdict, input, resolved, kills>>

\* lines 281-283 of createSessionDirect: the spawn after the check
createSessionDirectSpawn ==
    /\ pc = "spawn"
    /\ Spawn(options.sessionName)
    /\ UNCHANGED <<options, installed, listResult, sessions, index, letterMap, asks,
                   lastInput, verdict, input, resolved, kills>>

\* another client of the authority creates a session after this run has
\* read its listing and before it spawns its child
otherClient ==
    /\ pc \in {"spawn", "timer"}
    /\ Len(authority) < Len(sessions) + MaxOthers
    /\ \E name \in ArgNames :
          /\ \A i \in 1..Len(authority) : authority[i] # name
          /\ authority' = Append(authority, name)
    /\ UNCHANGED <<options, installed, listResult, pc, sessions, index, letterMap, asks,
                   lastInput, verdict, input, resolved, spawned, kills, child,
                   exitStatus>>

\* a catch that reports the failed kill and lets the run end normally
killDirectExit_NoExit(ok) == 0

\* lines 299-305: the status killSessionDirect ends with after its kill
killDirectExit(ok) == IF ok THEN 0 ELSE 1

killSessionDirect ==
    /\ Ensured("kill")
    /\ \E r \in ZmxList(authority) :
          LET got == getZmxSessions(r)
          IN  /\ listResult' = r
              /\ IF got.threw
                 THEN /\ Exit(1)
                      /\ UNCHANGED <<sessions, kills, authority>>
                 ELSE /\ sessions' = got.value
                      /\ IF ~Exists(got.value, options.sessionName)
                         THEN /\ Exit(1)
                              /\ UNCHANGED <<kills, authority>>
                         ELSE \E ok \in BOOLEAN :
                                /\ kills' = Append(kills,
                                       [name |-> options.sessionName, ok |-> ok])
                                /\ authority' = IF ok
                                      THEN Without(authority, {options.sessionName})
                                      ELSE authority
                                /\ Exit(killDirectExit(ok))
    /\ UNCHANGED <<options, installed, index, letterMap, asks,
                   lastInput, verdict, input, resolved, spawned, child>>

\* runInteractiveMode up to its first prompt or to the letter loop
runInteractiveMode ==
    /\ Ensured("interactive")
    /\ \E r \in ZmxList(authority) :
          LET got == getZmxSessions(r)
          IN  /\ listResult' = r
              /\ IF got.threw
                 THEN Exit(1) /\ UNCHANGED sessions
                 ELSE /\ sessions' = got.value
                      /\ pc' = IF Len(got.value) = 0 THEN "textNoSessions" ELSE "forEach"
                      /\ UNCHANGED exitStatus
    /\ UNCHANGED <<options, installed, authority, index, letterMap, asks,
                   lastInput, verdict, input, resolved, spawned, kills, child>>

\* one turn of sessions.forEach((session, index) => ...) at lines 344-351;
\* the prompt is shown after the last
forEachSession ==
    /\ pc = "forEach"
    /\ index < Len(sessions)
    /\ letterMap' = MapSet(letterMap, generateLetterDesignation(index),
                           sessions[index + 1].name)
    /\ index' = index + 1
    /\ pc' = IF index + 1 = Len(sessions) THEN "textHasSessions" ELSE "forEach"
    /\ UNCHANGED <<options, installed, listResult, authority, sessions, asks, lastInput, verdict,
                   input, resolved, spawned, kills, child, exitStatus>>

\* the user submits value to the prompt: validate rejects it and the prompt
\* asks again, or text(...) resolves to it
Submit(value, rejected, next) ==
    /\ asks < MaxAsks
    /\ asks' = asks + 1
    /\ lastInput' = value
    /\ IF rejected
       THEN verdict' = "rejected" /\ UNCHANGED <<pc, input>>
       ELSE /\ verdict' = "accepted"
            /\ input' = [cancel |-> FALSE, value |-> value]
            /\ pc' = next
    /\ UNCHANGED <<options, installed, listResult, authority, sessions, index, letterMap,
                   resolved, spawned, kills, child, exitStatus>>

textNoSessions ==
    /\ pc = "textNoSessions"
    /\ \E value \in Inputs :
          Submit(value, validateNoSessions(value), "afterTextNoSessions")

textHasSessions ==
    /\ pc = "textHasSessions"
    /\ \E value \in Inputs :
          Submit(value, validateHasSessions(value, letterMap), "afterTextHasSessions")

\* the user aborts the prompt: text(...) resolves to the cancel symbol
textCancel ==
    /\ pc \in {"textNoSessions", "textHasSessions"}
    /\ input' = [cancel |-> TRUE, value |-> <<>>]
    /\ pc' = IF pc = "textNoSessions" THEN "afterTextNoSessions"
             ELSE "afterTextHasSessions"
    /\ UNCHANGED <<options, installed, listResult, authority, sessions, index, letterMap, asks,
                   lastInput, verdict, resolved, spawned, kills, child, exitStatus>>

Cancelled == [type |-> "Cancel", name |-> <<>>, generated |-> FALSE]

\* a continuation that never tests for the cancel symbol
isCancel_Never(inp) == FALSE

\* if (isCancel(input)) at lines 328 and 369
isCancel(inp) == inp.cancel

\* lines 328-336: after the first prompt
afterTextNoSessions ==
    /\ pc = "afterTextNoSessions"
    /\ IF isCancel(input)
       THEN resolved' = Cancelled /\ Exit(0)
       ELSE /\ \E uuid \in Uuids : resolved' = resolveNoSessions(input.value, uuid)
            /\ pc' = "timer"
            /\ UNCHANGED exitStatus
    /\ UNCHANGED <<options, installed, listResult, authority, sessions, index, letterMap, asks,
                   lastInput, verdict, input, spawned, kills, child>>

\* killAllSessions: the kills made when the first k succeed and, for
\* k < sessions.length, the next one throws
KillsMade(sess, k) ==
    [i \in 1..(IF k < Len(sess) THEN k + 1 ELSE k) |->
        [name |-> sess[i].name, ok |-> i <= k]]

\* a killAllSessions whose catch does not rethrow: line 380 is reached
resetExit_Swallow(made) == 0

\* the status 'reset' ends with: process.exit(0) at line 380 when no kill
\* threw, else the error reaches main().catch and process.exit(1)
resetExit(made) ==
    IF \A i \in 1..Len(made) : made[i].ok THEN 0 ELSE 1

\* lines 369-397: after the second prompt
afterTextHasSessions ==
    /\ pc = "afterTextHasSessions"
    /\ IF isCancel(input)
       THEN /\ resolved' = Cancelled
            /\ Exit(0)
            /\ UNCHANGED <<kills, authority>>
       ELSE \E uuid \in Uuids :
            LET act == resolveHasSessions(input.value, letterMap, uuid)
            IN  /\ resolved' = act
                /\ IF act.type = "KillAll"
                   THEN \E k \in 0..Len(sessions) :
                          /\ kills' = kills \o KillsMade(sessions, k)
                          /\ authority' = Without(authority,
                                 {sessions[i].name : i \in 1..k})
                          /\ Exit(resetExit(KillsMade(sessions, k)))
                   ELSE IF act.type = "None"
                   THEN Exit(0) /\ UNCHANGED <<kills, authority>>
                   ELSE /\ pc' = "timer"
                        /\ UNCHANGED <<kills, authority, exitStatus>>
    /\ UNCHANGED <<options, installed, listResult, sessions, index, letterMap, asks,
                   lastInput, verdict, input, spawned, child>>

\* the setTimeout callback of attachToSession and of createSession
timer ==
    /\ pc = "timer"
    /\ Spawn(resolved.name)
    /\ UNCHANGED <<options, installed, listResult, sessions, index, letterMap, asks,
                   lastInput, verdict, input, resolved, kills>>

\* code || 1
OrZero_One(code) == IF code = <<>> \/ code = <<0>> THEN 1 ELSE code[1]

\* code || 0 for the exit code the child reported (<<>> is null)
OrZero(code) == IF code = <<>> \/ code = <<0>> THEN 0 ELSE code[1]

\* zmx.on('exit', code => process.exit(code || 0))
onExit ==
    /\ pc = "handoff"
    /\ child.state = "running"
    /\ \E code \in ChildCodes :
          /\ child' = [state |-> "exited", code |-> code]
          /\ Exit(OrZero(code))
    /\ UNCHANGED <<options, installed, listResult, authority, sessions, index, letterMap, asks,
                   lastInput, verdict, input, resolved, spawned, kills>>

\* the child's 'error' event has no listener: the process ends with status 1
onError ==
    /\ pc = "handoff"
    /\ child.state = "failed"
    /\ Exit(1)
    /\ UNCHANGED <<options, installed, listResult, authority, sessions, index, letterMap, asks,
                   lastInput, verdict, input, resolved, spawned, kills, child>>

Next ==
    \/ showHelp
    \/ showVersion
    \/ ensureZmx
    \/ listSessionsDirect
    \/ attachSessionDirect
    \/ createSessionDirect
    \/ createSessionDirectSpawn
    \/ otherClient
    \/ killSessionDirect
    \/ runInteractiveMode
    \/ forEachSession
    \/ textNoSessions
    \/ textHasSessions
    \/ textCancel
    \/ afterTextNoSessions
    \/ afterTextHasSessions
    \/ timer
    \/ onExit
    \/ onError

Spec == Init /\ [][Next]_vars

---------------------------------------------------------------------------
(* The letter loop alone, on a listing of MaxListing sessions. *)

\* runInteractiveMode has listed MaxListing sessions and starts the loop
InitLetters ==
    /\ options = [command |-> "interactive", sessionName |-> <<>>]
    /\ installed = TRUE
    /\ authority = BigListing(MaxListing)
    /\ listResult = NotListed
    /\ pc = "forEach"
    /\ sessions = [i \in 1..MaxListing |-> [name |-> BigListing(MaxListing)[i]]]
    /\ index = 0
    /\ letterMap = EmptyMap
    /\ asks = 0
    /\ lastInput = <<>>
    /\ verdict = "none"
    /\ input = [cancel |-> FALSE, value |-> <<>>]
    /\ resolved = Pending
    /\ spawned = <<>>
    /\ kills = <<>>
    /\ child = NoChild
    /\ exitStatus = <<>>

NextLetters == forEachSession

SpecLetters == InitLetters /\ [][NextLetters]_vars


---------------------------------------------------------------------------
(* Vocabulary of the properties. *)

\* the run is interactive and validate has seen a value at the prompt shown
\* with sessions listed
AskedHasSessions ==
    options.command = "interactive" /\ Len(sessions) > 0 /\ verdict # "none"

\* the same for the prompt shown when the listing is empty
AskedNoSessions ==
    options.command = "interactive" /\ Len(sessions) = 0 /\ verdict # "none"

\* the continuation after the prompt has run
Dispatched == resolved # Pending

\* the timer of attachToSession / createSession has fired
Handed == pc \in {"handoff", "exited"} /\ Dispatched /\ resolved.type \in {"Attach", "Create"}

\* trimmed and lower-cased, as the second prompt compares it
Folded(value) == ToLowerCase(Trim(value))

AttachCall(name) == [command |-> "attach", name |-> name]

\* the names of the listing, in order
ListedNames == [i \in 1..Len(sessions) |-> sessions[i].name]

---------------------------------------------------------------------------
(* C1: with sessions listed, an input whose trimmed, lower-cased form is a  *)
(* one-character key of the letter map is accepted, resolves to the attach  *)
(* of the session at that rank of the listing, and the run spawns zmx       *)
(* attach for that session only and kills nothing.                          *)
C1_AttachByLetter ==
    (AskedHasSessions /\ Len(Folded(lastInput)) = 1
        /\ Folded(lastInput) \in DOMAIN letterMap)
    => /\ verdict = "accepted"
       /\ kills = <<>>
       /\ Dispatched =>
            /\ resolved.type = "Attach"
            /\ \E r \in 1..Len(sessions) :
                  /\ generateLetterDesignation(r - 1) = Folded(lastInput)
                  /\ resolved.name = sessions[r].name
       /\ spawned = IF Handed THEN <<AttachCall(letterMap[Folded(lastInput)])>>
                    ELSE <<>>

\* ' a ' and 'A' have attached the first session of the listing
C1_Witness ==
    /\ AskedHasSessions
    /\ lastInput \in {<<32, 97, 32>>, <<65>>}
    /\ spawned = <<AttachCall(sessions[1].name)>>
    /\ child.state = "running"

---------------------------------------------------------------------------
(* C2: with sessions listed, an input whose trimmed, lower-cased form has   *)
(* length 1 and is no key of the letter map is rejected: the prompt stays,  *)
(* nothing is spawned or killed, the process does not end, and the listing  *)
(* and the letter map stay as they are.                                     *)
\* the inputs C2 is about, for the letter map of the run
C2_Case(value) ==
    Len(Folded(value)) = 1 /\ Folded(value) \notin DOMAIN letterMap

\* what C2 says of a step in which validate sees such an input
C2_Step ==
    (pc = "textHasSessions" /\ asks' = asks + 1 /\ C2_Case(lastInput'))
    => /\ verdict' = "rejected"
       /\ pc' = "textHasSessions"
       /\ exitStatus' = <<>>
       /\ spawned' = <<>> /\ kills' = <<>> /\ child' = NoChild
       /\ resolved' = Pending
       /\ sessions' = sessions /\ letterMap' = letterMap

\* C2 as a property of every step: a validate call on such an input is a
\* rejection that changes nothing but the count of asks
C2_RejectUnknownLetter == [][C2_Step]_vars

\* 'z' was rejected for a listing of fewer than 26 sessions
C2_Witness ==
    /\ AskedHasSessions
    /\ pc = "textHasSessions"
    /\ verdict = "rejected"
    /\ lastInput = <<122>>
    /\ C2_Case(lastInput)


---------------------------------------------------------------------------
(* C3: with sessions listed, 'reset' in any letter case invokes zmx kill    *)
(* exactly once per session of the listing, in listing order, spawns no     *)
(* attach or create, and exits with status 0 when every kill succeeded.     *)
C3_ResetKillsEveryListed ==
    (AskedHasSessions /\ verdict = "accepted" /\ Folded(lastInput) = ResetWord
        /\ Dispatched)
    => /\ [i \in 1..Len(kills) |-> kills[i].name] = ListedNames
       /\ spawned = <<>>
       /\ (\A i \in 1..Len(kills) : kills[i].ok) => exitStatus = <<0>>

---------------------------------------------------------------------------
(* C4: with an empty listing, an input whose trimmed form is one ASCII      *)
(* letter is rejected by validate and never becomes a Create.               *)
C4_SingleLetterNeverCreates ==
    (AskedNoSessions /\ IsAsciiLetter(Trim(lastInput)))
    => /\ verdict = "rejected"
       /\ resolved.type # "Create"
       /\ spawned = <<>>

---------------------------------------------------------------------------
(* C5: with sessions listed, an input whose trimmed form has two or more    *)
(* code units and is not 'reset' when lower-cased is accepted and creates   *)
(* the session named by the trimmed input in its original letter case, and  *)
(* nothing is killed.                                                       *)
C5_CreateKeepsCase ==
    (AskedHasSessions /\ Len(Trim(lastInput)) >= 2
        /\ Folded(lastInput) # ResetWord)
    => /\ verdict = "accepted"
       /\ kills = <<>>
       /\ Dispatched =>
            resolved = [type |-> "Create", name |-> Trim(lastInput),
                        generated |-> FALSE]
       /\ spawned = IF Handed THEN <<AttachCall(Trim(lastInput))>> ELSE <<>>

\* 'Ab' was typed and zmx attach was spawned for 'Ab', not for 'ab'
C5_Witness ==
    /\ AskedHasSessions
    /\ lastInput = <<65, 98>>
    /\ resolved.type = "Create"
    /\ spawned = <<AttachCall(<<65, 98>>)>>

---------------------------------------------------------------------------
(* C6: at either prompt an input that is empty after trimming is accepted   *)
(* and creates a session under a generated identifier: no session of the    *)
(* listing is attached and nothing is killed.                               *)
C6_EmptyInputCreatesGenerated ==
    ((AskedHasSessions \/ AskedNoSessions) /\ Trim(lastInput) = <<>>)
    => /\ verdict = "accepted"
       /\ kills = <<>>
       /\ Dispatched =>
            /\ resolved.type = "Create"
            /\ resolved.generated
            /\ resolved.name \in Uuids
            /\ ~Exists(sessions, resolved.name)
       /\ spawned = IF Handed THEN <<AttachCall(resolved.name)>> ELSE <<>>

\* two spaces were typed with sessions listed and a generated name was spawned
C6_Witness ==
    /\ AskedHasSessions
    /\ lastInput = <<32, 32>>
    /\ resolved.generated
    /\ Len(spawned) = 1
    /\ spawned[1].name \in Uuids

---------------------------------------------------------------------------
(* C7: when the prompt reports cancellation, at either prompt, nothing is   *)
(* spawned or killed in the run, before or after, and the continuation      *)
(* ends the process with status 0.                                          *)
C7_CancelExitsClean ==
    input.cancel
    => /\ spawned = <<>> /\ kills = <<>> /\ child = NoChild
       /\ pc \in {"afterTextNoSessions", "afterTextHasSessions", "exited"}
       /\ pc = "exited" <=> Dispatched
       /\ Dispatched => resolved = Cancelled /\ exitStatus = <<0>>

\* the prompt shown with sessions listed was cancelled and the process ended
C7_Witness ==
    /\ input.cancel
    /\ Len(sessions) > 0
    /\ pc = "exited"
    /\ exitStatus = <<0>>

---------------------------------------------------------------------------
(* C8: while the child of a handoff runs the process has not ended, and     *)
(* once the child has exited the process has ended with the child's exit    *)
(* code, or with 0 when the child reported none.                            *)
C8_ExitFollowsChild ==
    /\ child.state = "running" => pc = "handoff" /\ exitStatus = <<>>
    /\ child.state = "exited" =>
          /\ pc = "exited"
          /\ exitStatus = IF child.code = <<>> THEN <<0>> ELSE child.code

\* a child ended by a signal (no exit code): the process ended with 0
C8_Witness ==
    /\ child.state = "exited"
    /\ child.code = <<>>
    /\ exitStatus = <<0>>
    /\ Len(spawned) = 1


---------------------------------------------------------------------------
(* The letter loop: the label the last turn of the loop gave its session.   *)

\* the rank the last turn of the loop handled
LastRank == index - 1

\* the key the loop has put the session of that rank under (the names of
\* the listing the loop runs on are pairwise distinct)
LastKey == CHOOSE k \in DOMAIN letterMap : letterMap[k] = sessions[index].name

IsLowerLetter(c) == c >= 97 /\ c <= 122

\* the label C9 states for a rank
C9_Shape(rank, key) ==
    IF rank < 26
    THEN key = <<97 + rank>>
    ELSE /\ Len(key) = 2
         /\ IsLowerLetter(key[1]) /\ IsLowerLetter(key[2])
         /\ key[1] = 97 + (rank \div 26) - 1
         /\ key[2] = 97 + (rank % 26)

(* C9, as stated: for every rank the label is the lowercase letter at       *)
(* offset rank (ranks 0..25), and for every rank from 26 on two lowercase   *)
(* letters, at offsets floor(rank/26)-1 and rank mod 26.                    *)
C9_EveryRankTwoLetters ==
    index > 0 => C9_Shape(LastRank, LastKey)

(* C9, amended: the same for the ranks 0..701; from rank 702 on the first   *)
(* code unit is past 'z'.                                                   *)
C9_LabelUpTo701 ==
    (index > 0 /\ LastRank <= 26 * 27 - 1) => C9_Shape(LastRank, LastKey)

\* rank 701 got 'zz'
C9_Witness ==
    /\ index = 26 * 27
    /\ LastKey = <<122, 122>>

---------------------------------------------------------------------------
(* C10: for a listing of n <= 676 sessions the letter map has exactly n     *)
(* keys, the label of each rank maps to the name of the session at that     *)
(* rank, and with 27 sessions 'aa' is the 27th session and 'a' the first.   *)
C10_OneKeyPerSession ==
    (pc \in {"forEach", "textHasSessions"} /\ index <= 26 * 26)
    => /\ Cardinality(DOMAIN letterMap) = index
       /\ {letterMap[k] : k \in DOMAIN letterMap}
            = {sessions[r].name : r \in 1..index}
       /\ \A r \in 1..index :
             /\ generateLetterDesignation(r - 1) \in DOMAIN letterMap
             /\ letterMap[generateLetterDesignation(r - 1)] = sessions[r].name
       /\ index >= 27 =>
             /\ <<97, 97>> \in DOMAIN letterMap
             /\ letterMap[<<97, 97>>] = sessions[27].name
             /\ letterMap[<<97>>] = sessions[1].name

\* the map of the first 676 sessions has 676 keys
C10_Witness ==
    /\ index = 26 * 26
    /\ Cardinality(DOMAIN letterMap) = 26 * 26
    /\ letterMap[<<97, 97>>] = sessions[27].name


---------------------------------------------------------------------------
(* C11: when a kill of a 'reset' fails, the run does not end with status 0: *)
(* it has ended with status 1, and it has spawned no attach or create.      *)
C11_FailedKillExitsOne ==
    (AskedHasSessions /\ Dispatched /\ resolved.type = "KillAll"
        /\ \E i \in 1..Len(kills) : ~kills[i].ok)
    => /\ pc = "exited"
       /\ exitStatus = <<1>>
       /\ spawned = <<>>
       /\ child = NoChild

\* the first kill of a 'reset' succeeded, the second failed, the run ended with 1
C11_Witness ==
    /\ resolved.type = "KillAll"
    /\ Len(kills) = 2
    /\ kills[1].ok /\ ~kills[2].ok
    /\ exitStatus = <<1>>

---------------------------------------------------------------------------
(* C12: killAllSessions goes on after a failed kill: once it has returned   *)
(* or thrown, every session of the listing has had exactly one kill         *)
(* attempt.                                                                 *)
C12_EveryListedKillAttempted ==
    (Dispatched /\ resolved.type = "KillAll")
    => \A i \in 1..Len(sessions) :
          Cardinality({j \in 1..Len(kills) : kills[j].name = sessions[i].name}) = 1


---------------------------------------------------------------------------
(* C13: the outcome of `zmx list` decides the run. Output that starts with  *)
(* 'no sessions found', or exit status 1, gives an empty listing and, in    *)
(* interactive mode, the prompt for an empty listing, not an error. Any     *)
(* other failure ends the run with status 1: no prompt, no attach, create   *)
(* or kill.                                                                 *)
C13_EmptySignal ==
    \/ listResult.kind = "status1"
    \/ /\ listResult.kind = "ok"
       /\ StartsWith(Trim(listResult.output), NoSessionsFound)

C13_ListOutcomeDecides ==
    /\ C13_EmptySignal =>
          /\ sessions = <<>>
          /\ options.command = "interactive" =>
                /\ pc \in {"textNoSessions", "afterTextNoSessions", "timer",
                           "handoff", "exited"}
                /\ pc = "exited" => Dispatched
    /\ listResult.kind = "failed" =>
          /\ pc = "exited"
          /\ exitStatus = <<1>>
          /\ asks = 0 /\ verdict = "none" /\ ~input.cancel /\ resolved = Pending
          /\ spawned = <<>> /\ kills = <<>> /\ child = NoChild

\* `zmx list` failed in an interactive run with sessions held: ended with 1
C13_Witness ==
    /\ options.command = "interactive"
    /\ listResult.kind = "failed"
    /\ Len(authority) > 0
    /\ exitStatus = <<1>>

\* exit status 1 of `zmx list` led to the prompt for an empty listing
C13_WitnessEmpty ==
    /\ options.command = "interactive"
    /\ listResult.kind = "status1"
    /\ pc = "textNoSessions"


---------------------------------------------------------------------------
(* The session lister alone, on output made of arbitrary lines. *)

\* lines of a list output, well formed and not: 'session_name=a<tab>pid=1',
\* ' session_name=zz ', 'session_name=' (no value), 'ab' (no token),
\* two spaces, and the empty line
ListLines ==
    {SessionNameKey \o <<97, 9, 112, 105, 100, 61, 49>>,
     <<32>> \o SessionNameKey \o <<122, 122, 32>>,
     SessionNameKey,
     <<97, 98>>,
     <<32, 32>>,
     <<>>}

RECURSIVE JoinLines(_)
\* the text of the lines q, each ended by a newline
JoinLines(q) ==
    IF q = <<>> THEN <<>> ELSE Head(q) \o <<10>> \o JoinLines(Tail(q))

\* the outcomes of execSync('zmx list') over such output
AnyZmxList ==
    {[kind |-> "ok", output |-> JoinLines(q)] : q \in SeqsUpTo(ListLines, MaxLines)}
    \cup {[kind |-> "status1", output |-> <<>>],
          [kind |-> "failed", output |-> <<>>]}

\* `poof --list` is about to run
InitLister ==
    /\ options = [command |-> "list", sessionName |-> <<>>]
    /\ installed = TRUE
    /\ authority = <<>>
    /\ listResult = NotListed
    /\ pc = "main"
    /\ sessions = <<>>
    /\ index = 0
    /\ letterMap = EmptyMap
    /\ asks = 0
    /\ lastInput = <<>>
    /\ verdict = "none"
    /\ input = [cancel |-> FALSE, value |-> <<>>]
    /\ resolved = Pending
    /\ spawned = <<>>
    /\ kills = <<>>
    /\ child = NoChild
    /\ exitStatus = <<>>

NextLister == \E r \in AnyZmxList : listSessionsDirectOn(r)

SpecLister == InitLister /\ [][NextLister]_vars

---------------------------------------------------------------------------
(* C14: every record getZmxSessions returns has a non-empty name: a line    *)
(* without a session_name=VALUE token is skipped or gives its raw text, and *)
(* no line, an interior line of white space included, gives an empty name.  *)
C14_NamesNonEmpty ==
    listResult.kind = "ok"
    => \A i \in 1..Len(sessions) : sessions[i].name # <<>>

---------------------------------------------------------------------------
(* C15: `--create NAME` spawns `zmx attach NAME` only when NAME is not in   *)
(* the listing it has just read; when NAME is listed it exits with status 1 *)
(* and spawns nothing.                                                      *)
C15_NameListed == \E i \in 1..Len(sessions) : sessions[i].name = options.sessionName

C15_CreateOnlyUnlisted ==
    options.command = "create"
    => /\ spawned # <<>>
          => /\ listResult.kind \in {"ok", "status1"}
             /\ ~C15_NameListed
             /\ spawned = <<AttachCall(options.sessionName)>>
       /\ (pc # "main" /\ C15_NameListed)
          => /\ pc = "exited"
             /\ exitStatus = <<1>>
             /\ spawned = <<>>
             /\ child = NoChild

C15_Witness ==
    /\ options.command = "create"
    /\ Len(sessions) = 2
    /\ C15_NameListed
    /\ exitStatus = <<1>>

C15_WitnessSpawned ==
    /\ options.command = "create"
    /\ sessions # <<>>
    /\ spawned = <<AttachCall(options.sessionName)>>
    /\ child.state = "running"

---------------------------------------------------------------------------
(* C16: `--kill NAME` invokes `zmx kill` at most once, only for NAME and    *)
(* only when NAME is in the listing; the run exits 1 when NAME is not       *)
(* listed or the kill fails, and exits 0 only when the kill succeeded.      *)
C16_KillOnlyListed ==
    options.command = "kill"
    => /\ Len(kills) <= 1
       /\ \A i \in 1..Len(kills) :
             /\ kills[i].name = options.sessionName
             /\ \E j \in 1..Len(sessions) : sessions[j].name = options.sessionName
       /\ spawned = <<>>
       /\ pc = "exited"
          => exitStatus = IF kills # <<>> /\ kills[1].ok THEN <<0>> ELSE <<1>>

C16_Witness ==
    /\ options.command = "kill"
    /\ Len(sessions) = 2
    /\ Len(kills) = 1
    /\ ~kills[1].ok
    /\ exitStatus = <<1>>

C16_WitnessKilled ==
    /\ options.command = "kill"
    /\ Len(kills) = 1
    /\ kills[1].ok
    /\ exitStatus = <<0>>
    /\ \A i \in 1..Len(authority) : authority[i] # options.sessionName

C16_WitnessNotListed ==
    /\ options.command = "kill"
    /\ sessions # <<>>
    /\ kills = <<>>
    /\ exitStatus = <<1>>

---------------------------------------------------------------------------
(* C17: when the zmx binary is not found, every command but help and        *)
(* version exits with status 1 before any list, attach or kill subprocess   *)
(* is started; help and version complete without the check.                 *)
C17_NoSubprocess ==
    /\ listResult = NotListed
    /\ spawned = <<>>
    /\ kills = <<>>
    /\ child = NoChild
    /\ asks = 0

C17_MissingBinaryExitsOne ==
    /\ (~installed /\ options.command \notin {"help", "version"})
       => /\ C17_NoSubprocess
          /\ pc \in {"main", "exited"}
          /\ pc = "exited" => exitStatus = <<1>>
    /\ options.command \in {"help", "version"}
       => /\ C17_NoSubprocess
          /\ pc \in {"main", "exited"}
          /\ pc = "exited" => exitStatus = <<0>>

C17_Witness ==
    /\ ~installed
    /\ options.command = "attach"
    /\ pc = "exited"
    /\ exitStatus = <<1>>

C17_WitnessHelp ==
    /\ ~installed
    /\ options.command = "help"
    /\ exitStatus = <<0>>

---------------------------------------------------------------------------
(* C18: typing a name of two or more characters at the prompt creates a new *)
(* session: once the terminal is handed off the authority holds one session *)
(* more than the listing showed, also when the typed name is the name of a  *)
(* listed session.                                                          *)
C18_TypedNameAddsSession ==
    (/\ AskedHasSessions
     /\ Dispatched
     /\ ~input.cancel
     /\ Len(Trim(input.value)) >= 2
     /\ Folded(input.value) # ResetWord
     /\ child.state = "running")
    => Len(authority) = Len(sessions) + 1

---------------------------------------------------------------------------
(* C19: with an empty listing only Create and Cancel can be reached: no     *)
(* kill and no attach by letter; every accepted input whose trimmed length  *)
(* is two or more, 'reset' in any case included, creates the session named  *)
(* by the trimmed input.                                                    *)
C19_NoSessionsOnlyCreates ==
    (options.command = "interactive" /\ listResult # NotListed /\ sessions = <<>>)
    => /\ kills = <<>>
       /\ letterMap = EmptyMap
       /\ resolved.type \in {"Pending", "Create", "Cancel"}
       /\ \A i \in 1..Len(spawned) : spawned[i] = AttachCall(resolved.name)
       /\ (Dispatched /\ ~input.cancel /\ Len(Trim(input.value)) >= 2)
          => resolved = [type |-> "Create", name |-> Trim(input.value),
                         generated |-> FALSE]

C19_Witness ==
    /\ AskedNoSessions
    /\ input.value = <<32, 114, 101, 83, 101, 116, 32>>
    /\ resolved.type = "Create"
    /\ resolved.name = <<114, 101, 83, 101, 116>>
    /\ spawned = <<AttachCall(resolved.name)>>
    /\ kills = <<>>

---------------------------------------------------------------------------
(* C20: every interactive run whose input was accepted performs exactly one *)
(* session action: the validator and the dispatch classify the input alike, *)
(* the guarded attach never falls through silently, and no run both kills   *)
(* and attaches.                                                            *)
C20_AcceptedInputActs ==
    (options.command = "interactive" /\ Dispatched /\ ~input.cancel)
    => /\ resolved.type \in {"Attach", "Create", "KillAll"}
       /\ ~(kills # <<>> /\ spawned # <<>>)
       /\ pc = "exited" => (kills # <<>> \/ spawned # <<>>)

---------------------------------------------------------------------------
(* C21: every session of the interactive listing can be attached through    *)
(* the letter designation shown for it: for every key k of the letterMap,   *)
(* two-letter keys such as 'aa' included, entering k attaches to            *)
(* letterMap[k] and does not create a session.                              *)
C21_EveryKeyAttaches ==
    (/\ AskedHasSessions
     /\ Dispatched
     /\ ~input.cancel
     /\ Folded(input.value) \in DOMAIN letterMap)
    => resolved = [type |-> "Attach", name |-> letterMap[Folded(input.value)],
                   generated |-> FALSE]

---------------------------------------------------------------------------
(* C22: with another client creating sessions in the authority, a run of    *)
(* `--create NAME` never spawns its attach while NAME exists: no step of    *)
(* another client that brings NAME into existence comes between the check   *)
(* of the listing and the spawn. (Stated for a run whose `zmx list` ended   *)
(* normally, so that the listing showed every session there was.)           *)
C22_CreateNeverJoinsExisting ==
    [][(options.command = "create" /\ listResult.kind = "ok" /\ spawned' # spawned)
       => \A i \in 1..Len(authority) : authority[i] # options.sessionName]_vars

===========================================================================
